---- MODULE Spec2Model ----
(***************************************************************************)
(* A model of compute_mean.py: one run of the script, from the parsed      *)
(* command line to the written mean structure, with the frame accumulator  *)
(* compute_mean run serially or as the chunks of a parallel reduction.     *)
(*                                                                         *)
(* Numeric abstraction.  The script keeps, per particle, 3-vectors of      *)
(* floats.  Every array operation of the script is element-wise, so the    *)
(* model keeps ONE particle with ONE coordinate.  A frame's contribution   *)
(* to the sums after the alignment (the superposition depends only on the  *)
(* frame and on the reference) is an integer; a unit orientation vector is *)
(* +1 or -1.  A quotient is an exact fraction, with the IEEE results of a  *)
(* division by zero (nan, inf) kept as values of their own.                *)
(***************************************************************************)
EXTENDS Integers, Sequences, FiniteSets, TLC

\* ------------------------------------------------------------------ bounds
\* Longest trajectory (in frames) of a serial run.
MaxF == 21
\* Longest trajectory of a parallel run with more than one worker (a
\* parallel run with a single worker takes the trajectories of a serial
\* run).
MaxParF == 3
\* Largest worker count given with -p.
MaxW == 3
\* Largest frame count handed to the result finaliser on its own.
MaxCount == 5

\* ------------------------------------------------------------ float values
Abs(x) == IF x < 0 THEN -x ELSE x

Max(a, b) == IF a >= b THEN a ELSE b

Min(a, b) == IF a <= b THEN a ELSE b

RECURSIVE GCD(_, _)
GCD(a, b) == IF b = 0 THEN a ELSE GCD(b, a % b)

\* The float results that are not numbers.
NaN == [num |-> 0, den |-> 0]

Inf == [num |-> 1, den |-> 0]

NegInf == [num |-> -1, den |-> 0]

\* numpy's array / integer: an exact quotient here, nan for 0/0 and
\* +-inf for x/0 (a RuntimeWarning, never an exception).
Div(n, d) ==
    IF d = 0
    THEN IF n = 0 THEN NaN ELSE IF n > 0 THEN Inf ELSE NegInf
    ELSE LET g == GCD(Abs(n), d) IN [num |-> n \div g, den |-> d \div g]

Zero == Div(0, 1)

IsUnit(v) == v = Div(1, 1) \/ v = Div(-1, 1)

\* python int % numpy float64: nan when the divisor is 0.0.
ModF(a, b) == IF b = 0 THEN NaN ELSE Div(a % b, 1)

\* python int / numpy float64 followed by floor, kept as a float value.
FloorDivF(a, b) ==
    IF b = 0 THEN Div(a, 0) ELSE Div(a \div b, 1)

\* normalize(v): norm == 0 returns v itself; otherwise v / norm.  A nan
\* norm is not == 0, and nan / nan and inf / inf are nan.
normalize(v) ==
    IF v.den = 0 THEN NaN
    ELSE IF v.num = 0 THEN v
    ELSE IF v.num > 0 THEN Div(1, 1) ELSE Div(-1, 1)

\* ------------------------------------------------------------- trajectory
RECURSIVE Pow2(_)
Pow2(n) == IF n = 0 THEN 1 ELSE 2 * Pow2(n - 1)

\* What frame f adds to the position sum once aligned to the reference.
\* The values are distinct powers of two, so a sum tells which frames
\* were folded into it.
FramePos(f) == Pow2(f)

\* What frame f adds to the a1 and a3 sums: rotated unit vectors.
FrameA1(f) == IF f % 2 = 0 THEN 1 ELSE -1

FrameA3(f) == IF f % 3 = 2 THEN -1 ELSE 1

\* reader._get_system(N_skip): skip N_skip frames, then read one.  rpos is
\* the index of the next unread frame; the result is <<f>> for frame f or
\* <<>> (False) at the end of the trajectory.  Skipping is a loop over
\* range(N_skip), which is empty for a negative N_skip.
GetSystem(rpos, N_skip, F) ==
    LET target == rpos + Max(N_skip, 0)
    IN  IF target < F
        THEN [sys |-> <<target>>, rpos |-> target + 1]
        ELSE [sys |-> <<>>, rpos |-> F]

\* cal_confs(traj_file): the number of frames in the trajectory.
cal_confs(F) == F

\* ------------------------------------------------------------- file names
Name(stem, ext) == [stem |-> stem, ext |-> ext]

\* outfile.split(".")[0] + "." + ext
SplitExt(name, ext) == Name(name.stem, ext)

\* ------------------------------------------------------------ command line
FormatTokens == {"json", "oxDNA", "oxdna", "both", "xml"}

OutputNames == {Name("out", "json")}

Opt(S) == {<<>>} \cup {<<x>> : x \in S}

Given(o) == Len(o) > 0

ArgSets ==
    [ format     : Opt(FormatTokens),
      output     : Opt(OutputNames),
      deviations : Opt({"dev"}),
      index_file : Opt({"ints", "words"}),
      align      : Opt(-1 .. MaxF),
      parallel   : Opt(1 .. MaxW) ]

VARIABLES
    nframes,        \* frames in the trajectory file
    args,           \* the parsed command line
    pc,             \* where the script is
    outjson, outoxdna, outfile, dev_file,
    indexes,        \* "unset", "all", "subset" or "strings"
    num_confs, INTERMEDIATE_EVERY,
    align_conf,     \* "unset", "loaded" or "centred"
    align_conf_id,
    procs,          \* the running compute_mean calls, by worker
    out,            \* what fire_multiprocess returned
    mean_pos_storage, mean_a1_storage, mean_a3_storage,
    intermediate_mean_structures, processed_frames,
    mean_file,      \* the serialised mean structure, <<>> before it exists
    fs,             \* the files written: name -> kind of content
    jsonfile,
    subproc,        \* the launches of compute_deviations.py
    framesRead      \* frames read from the trajectory so far, by any reader

vars == <<nframes, args, pc, outjson, outoxdna, outfile, dev_file, indexes,
          num_confs, INTERMEDIATE_EVERY, align_conf, align_conf_id, procs,
          out, mean_pos_storage, mean_a1_storage, mean_a3_storage,
          intermediate_mean_structures, processed_frames, mean_file, fs,
          jsonfile, subproc, framesRead>>

cliVars == <<nframes, args>>

fmtVars == <<outjson, outoxdna>>

refVars == <<align_conf, align_conf_id>>

sumVars == <<mean_pos_storage, mean_a1_storage, mean_a3_storage,
             intermediate_mean_structures, processed_frames>>

outVars == <<mean_file, fs, jsonfile, subproc>>

NoName == Name("", "")

Unset == <<>>

parallel == Given(args.parallel)

n_cpus == args.parallel[1]

Init ==
    /\ nframes \in 1 .. MaxF
    /\ args \in ArgSets
    /\ (Given(args.parallel) /\ args.parallel[1] > 1) => nframes <= MaxParF
    /\ Given(args.align) => args.align[1] \in {-1, 0, nframes}
    /\ pc = "format"
    /\ outjson = FALSE
    /\ outoxdna = FALSE
    /\ outfile = NoName
    /\ dev_file = Unset
    /\ indexes = "unset"
    /\ num_confs = 0
    /\ INTERMEDIATE_EVERY = 0
    /\ align_conf = "unset"
    /\ align_conf_id = Unset
    /\ procs = <<>>
    /\ out = <<>>
    /\ mean_pos_storage = 0
    /\ mean_a1_storage = 0
    /\ mean_a3_storage = 0
    /\ intermediate_mean_structures = <<>>
    /\ processed_frames = 0
    /\ mean_file = Unset
    /\ fs = {}
    /\ jsonfile = NoName
    /\ subproc = <<>>
    /\ framesRead = 0


\* ------------------------------------------------------- the script, part 1
\* A format selection that knows only the spelling "oxDNA".
ParseFormatOneSpelling ==
    /\ pc = "format"
    /\ IF Given(args.format)
       THEN LET tok  == args.format[1]
                both == tok = "both"
                j    == tok = "json" \/ both
                o    == tok = "oxDNA" \/ both
            IN  /\ outjson' = j
                /\ outoxdna' = o
                /\ pc' = IF ~j /\ ~o THEN "exit1" ELSE "output"
       ELSE /\ outjson' = FALSE
            /\ outoxdna' = TRUE
            /\ pc' = "output"
    /\ UNCHANGED <<cliVars, outfile, dev_file, indexes, num_confs,
                   INTERMEDIATE_EVERY, refVars, procs, out, sumVars, outVars,
                   framesRead>>

\* -f: the format of the output file (membership in the one-element list
\* args.format, so a token matches only as a whole).
ParseFormat ==
    /\ pc = "format"
    /\ IF Given(args.format)
       THEN LET tok  == args.format[1]
                both == tok = "both"
                j    == tok = "json" \/ both
                o    == tok = "oxDNA" \/ tok = "oxdna" \/ both
            IN  /\ outjson' = j
                /\ outoxdna' = o
                /\ pc' = IF ~j /\ ~o THEN "exit1" ELSE "output"
       ELSE /\ outjson' = FALSE
            /\ outoxdna' = TRUE
            /\ pc' = "output"
    /\ UNCHANGED <<cliVars, outfile, dev_file, indexes, num_confs,
                   INTERMEDIATE_EVERY, refVars, procs, out, sumVars, outVars,
                   framesRead>>

\* The default extension of the output file.
DefaultExt ==
    IF outjson /\ ~outoxdna THEN "json"
    ELSE IF outjson /\ outoxdna THEN "json/.dat"
    ELSE "dat"

\* -o names the output file; -d names the deviations file.
ChooseOutfile ==
    /\ pc = "output"
    /\ outfile' = IF Given(args.output) THEN args.output[1]
                  ELSE Name("mean", DefaultExt)
    /\ dev_file' = args.deviations
    /\ pc' = "index"
    /\ UNCHANGED <<cliVars, fmtVars, indexes, num_confs, INTERMEDIATE_EVERY,
                   refVars, procs, out, sumVars, outVars, framesRead>>

\* -i: the particle subset.  A token that is no integer makes the list
\* comprehension raise; the handler prints the error and the script goes
\* on, with indexes still the list of strings that split() returned.
ReadIndexes ==
    /\ pc = "index"
    /\ indexes' = IF Given(args.index_file)
                  THEN IF args.index_file[1] = "ints" THEN "subset"
                       ELSE "strings"
                  ELSE "all"
    /\ pc' = "count"
    /\ UNCHANGED <<cliVars, fmtVars, outfile, dev_file, num_confs,
                   INTERMEDIATE_EVERY, refVars, procs, out, sumVars, outVars,
                   framesRead>>

\* num_confs and INTERMEDIATE_EVERY = np.floor(num_confs / 10).
CountConfs ==
    /\ pc = "count"
    /\ num_confs' = cal_confs(nframes)
    /\ INTERMEDIATE_EVERY' = cal_confs(nframes) \div 10
    /\ pc' = "pick"
    /\ UNCHANGED <<cliVars, fmtVars, outfile, dev_file, indexes, refVars,
                   procs, out, sumVars, outVars, framesRead>>

\* pick_starting_configuration(traj_file, top_file, num_confs): the id is
\* int(args.align[0]) or randint(0, max_bound - 1); the frame is read by a
\* reader of its own with N_skip = id; a falsy result exits with 1.
PickWith(stop_at) ==
    LET got == GetSystem(0, stop_at, nframes)
    IN  IF got.sys = <<>>
        THEN /\ pc' = "exit1"
             /\ UNCHANGED <<refVars, framesRead>>
        ELSE /\ pc' = "centre"
             /\ align_conf' = "loaded"
             /\ align_conf_id' = <<stop_at>>
             /\ framesRead' = framesRead + 1

pick_starting_configuration ==
    /\ pc = "pick"
    /\ IF Given(args.align)
       THEN PickWith(args.align[1])
       ELSE \E r \in 0 .. num_confs - 1 : PickWith(r)
    /\ UNCHANGED <<cliVars, fmtVars, outfile, dev_file, indexes, num_confs,
                   INTERMEDIATE_EVERY, procs, out, sumVars, outVars>>

\* The reference restricted to the index subset, shifted to its centre of
\* mass.  With indexes a list of strings no particle index is in it: the
\* restricted array is empty (shape (0,)), compute_cms gives nan (shape
\* (3,)) and the in-place subtraction raises on the shapes.
CentreReference ==
    /\ pc = "centre"
    /\ IF indexes = "strings"
       THEN /\ pc' = "crashed"
            /\ UNCHANGED align_conf
       ELSE /\ pc' = "mean"
            /\ align_conf' = "centred"
    /\ UNCHANGED <<cliVars, fmtVars, outfile, dev_file, indexes, num_confs,
                   INTERMEDIATE_EVERY, align_conf_id, procs, out, sumVars,
                   outVars, framesRead>>


\* ------------------------------------------------------------ compute_mean
\* One call of compute_mean(reader, align_conf, num_confs, start, stop):
\* its arguments (<<>> is None), its locals, and the ids of the frames it
\* has folded into its sums, in order.
NewCall(start, stop) ==
    [ status |-> "called", argstart |-> start, argstop |-> stop,
      start |-> 0, stop |-> 0, rpos |-> 0, mysystem |-> <<>>, confid |-> 0,
      pos |-> 0, a1 |-> 0, a3 |-> 0, inter |-> <<>>, folded |-> <<>> ]

\* stop and start default to num_confs and 0; the first frame is read with
\* N_skip = start; the sums and the counter start at zero.
EnterCall(c) ==
    LET start == IF c.argstart = <<>> THEN 0 ELSE c.argstart[1]
        stop  == IF c.argstop = <<>> THEN num_confs ELSE c.argstop[1]
        got   == GetSystem(c.rpos, start, nframes)
    IN  [c EXCEPT !.status = "loop", !.start = start, !.stop = stop,
                  !.rpos = got.rpos, !.mysystem = got.sys, !.confid = 0,
                  !.pos = 0, !.a1 = 0, !.a3 = 0, !.inter = <<>>]

\* The test of the while loop.
LoopTest(c) == c.mysystem # <<>> /\ c.confid < c.stop

\* The test without its "not parallel".
SnapshotTestAlsoParallel(confid) ==
    ModF(confid, INTERMEDIATE_EVERY) = Zero

\* The test taken on the counter before its increment.
SnapshotTestBeforeIncrement(confid) ==
    ~parallel /\ ModF(confid - 1, INTERMEDIATE_EVERY) = Zero

\* The test before an intermediate mean: not parallel and
\* confid % INTERMEDIATE_EVERY == 0.
SnapshotTest(confid) ==
    ~parallel /\ ModF(confid, INTERMEDIATE_EVERY) = Zero

\* One pass of the loop: fold the aligned frame into the sums, count it,
\* read the next frame, and append an intermediate mean when due.
LoopBody(c) ==
    LET f      == c.mysystem[1]
        pos    == c.pos + FramePos(f)
        confid == c.confid + 1
        got    == GetSystem(c.rpos, 0, nframes)
    IN  [c EXCEPT !.pos = pos,
                  !.a1 = c.a1 + FrameA1(f),
                  !.a3 = c.a3 + FrameA3(f),
                  !.confid = confid,
                  !.folded = Append(c.folded, f),
                  !.rpos = got.rpos,
                  !.mysystem = got.sys,
                  !.inter = IF SnapshotTest(confid)
                            THEN Append(c.inter, Div(pos, confid))
                            ELSE c.inter]

\* What the call returns.
Result(c) ==
    [pos |-> c.pos, a1 |-> c.a1, a3 |-> c.a3, inter |-> c.inter,
     confid |-> c.confid]

Running == pc = "accumulate"

ComputeMeanEnter(i) ==
    /\ Running
    /\ procs[i].status = "called"
    /\ procs' = [procs EXCEPT ![i] = EnterCall(procs[i])]
    /\ framesRead' = framesRead + Len(EnterCall(procs[i]).mysystem)
    /\ UNCHANGED <<cliVars, pc, fmtVars, outfile, dev_file, indexes,
                   num_confs, INTERMEDIATE_EVERY, refVars, out, sumVars,
                   outVars>>

ComputeMeanStep(i) ==
    /\ Running
    /\ procs[i].status = "loop"
    /\ LoopTest(procs[i])
    /\ procs' = [procs EXCEPT ![i] = LoopBody(procs[i])]
    /\ framesRead' = framesRead + Len(LoopBody(procs[i]).mysystem)
    /\ UNCHANGED <<cliVars, pc, fmtVars, outfile, dev_file, indexes,
                   num_confs, INTERMEDIATE_EVERY, refVars, out, sumVars,
                   outVars>>

\* A frame that cannot be processed (the superposition or the reader
\* raises): the call ends with an exception.
ComputeMeanRaise(i) ==
    /\ Running
    /\ procs[i].status = "loop"
    /\ LoopTest(procs[i])
    /\ procs' = [procs EXCEPT ![i].status = "raised"]
    /\ UNCHANGED <<cliVars, pc, fmtVars, outfile, dev_file, indexes,
                   num_confs, INTERMEDIATE_EVERY, refVars, out, sumVars,
                   outVars, framesRead>>

ComputeMeanReturn(i) ==
    /\ Running
    /\ procs[i].status = "loop"
    /\ ~LoopTest(procs[i])
    /\ procs' = [procs EXCEPT ![i].status = "returned"]
    /\ UNCHANGED <<cliVars, pc, fmtVars, outfile, dev_file, indexes,
                   num_confs, INTERMEDIATE_EVERY, refVars, out, sumVars,
                   outVars, framesRead>>

\* --------------------------------------------------------- the chunk ranges
\* fire_multiprocess splits [0, F) into W contiguous ranges, as equal as
\* possible, the remainder going to the earliest ranges.
ChunkSize(F, W, i) == (F \div W) + (IF i < F % W THEN 1 ELSE 0)

\* A split that forgets the remainder when it places a range.
ChunkStartNoRemainder(F, W, i) == i * (F \div W)

ChunkStart(F, W, i) == i * (F \div W) + Min(i, F % W)

ChunkStop(F, W, i) == ChunkStart(F, W, i) + ChunkSize(F, W, i)

\* ------------------------------------------------------- the script, part 2
\* Serial: compute_mean on a new reader, with no start and no stop.
SerialCall ==
    /\ pc = "mean"
    /\ ~parallel
    /\ procs' = <<NewCall(<<>>, <<>>)>>
    /\ pc' = "accumulate"
    /\ UNCHANGED <<cliVars, fmtVars, outfile, dev_file, indexes, num_confs,
                   INTERMEDIATE_EVERY, refVars, out, sumVars, outVars,
                   framesRead>>

SerialReturn ==
    /\ Running
    /\ ~parallel
    /\ procs[1].status = "returned"
    /\ mean_pos_storage' = Result(procs[1]).pos
    /\ mean_a1_storage' = Result(procs[1]).a1
    /\ mean_a3_storage' = Result(procs[1]).a3
    /\ intermediate_mean_structures' = Result(procs[1]).inter
    /\ processed_frames' = Result(procs[1]).confid
    /\ pc' = "finalize"
    /\ UNCHANGED <<cliVars, fmtVars, outfile, dev_file, indexes, num_confs,
                   INTERMEDIATE_EVERY, refVars, procs, out, outVars,
                   framesRead>>

\* An exception of compute_mean is caught nowhere: the script ends.
SerialRaise ==
    /\ Running
    /\ ~parallel
    /\ procs[1].status = "raised"
    /\ pc' = "crashed"
    /\ UNCHANGED <<cliVars, fmtVars, outfile, dev_file, indexes, num_confs,
                   INTERMEDIATE_EVERY, refVars, procs, out, sumVars, outVars,
                   framesRead>>

\* Parallel: fire_multiprocess gives every chunk a reader of its own and
\* runs compute_mean(reader, align_conf, num_confs, start, stop) on it.
FireMultiprocess ==
    /\ pc = "mean"
    /\ parallel
    /\ procs' = [i \in 1 .. n_cpus |->
                   NewCall(<<ChunkStart(num_confs, n_cpus, i - 1)>>,
                           <<ChunkStop(num_confs, n_cpus, i - 1)>>)]
    /\ pc' = "accumulate"
    /\ UNCHANGED <<cliVars, fmtVars, outfile, dev_file, indexes, num_confs,
                   INTERMEDIATE_EVERY, refVars, out, sumVars, outVars,
                   framesRead>>

\* fire_multiprocess returns once every worker has returned, with the
\* workers' results in the order of the chunks.
PoolDone == \A i \in DOMAIN procs : procs[i].status = "returned"

PoolResults == [i \in DOMAIN procs |-> Result(procs[i])]

\* A worker's exception fails the whole reduction: fire_multiprocess
\* raises, whatever the other workers have done.
PoolFailed == \E i \in DOMAIN procs : procs[i].status = "raised"

\* The results of the workers that have returned, in chunk order.
ReturnedResults ==
    LET done == SelectSeq(procs, LAMBDA c : c.status = "returned")
    IN  [i \in DOMAIN done |-> Result(done[i])]

FireMultiprocessReturn ==
    /\ Running
    /\ parallel
    /\ PoolDone
    /\ out' = PoolResults
    /\ pc' = "reduce"
    /\ UNCHANGED <<cliVars, fmtVars, outfile, dev_file, indexes, num_confs,
                   INTERMEDIATE_EVERY, refVars, procs, sumVars, outVars,
                   framesRead>>

\* A script that catches the exception of fire_multiprocess and goes on
\* with the results there are.
FireMultiprocessRaiseCaught ==
    /\ Running
    /\ parallel
    /\ PoolFailed
    /\ out' = ReturnedResults
    /\ pc' = "reduce"
    /\ UNCHANGED <<cliVars, fmtVars, outfile, dev_file, indexes, num_confs,
                   INTERMEDIATE_EVERY, refVars, procs, sumVars, outVars,
                   framesRead>>

\* The call of fire_multiprocess is in no try block: its exception ends
\* the script.
FireMultiprocessRaise ==
    /\ Running
    /\ parallel
    /\ PoolFailed
    /\ pc' = "crashed"
    /\ UNCHANGED <<cliVars, fmtVars, outfile, dev_file, indexes, num_confs,
                   INTERMEDIATE_EVERY, refVars, procs, out, sumVars, outVars,
                   framesRead>>

RECURSIVE SumOf(_, _)
SumOf(seq, field) ==
    IF seq = <<>> THEN 0 ELSE seq[1][field] + SumOf(Tail(seq), field)

RECURSIVE Extend(_)
Extend(seq) ==
    IF seq = <<>> THEN <<>> ELSE seq[1].inter \o Extend(Tail(seq))

\* The partial sums are added, the intermediate means concatenated, the
\* counts added.
Reduce ==
    /\ pc = "reduce"
    /\ mean_pos_storage' = SumOf(out, "pos")
    /\ mean_a1_storage' = SumOf(out, "a1")
    /\ mean_a3_storage' = SumOf(out, "a3")
    /\ intermediate_mean_structures' = Extend(out)
    /\ processed_frames' = SumOf(out, "confid")
    /\ pc' = "finalize"
    /\ UNCHANGED <<cliVars, fmtVars, outfile, dev_file, indexes, num_confs,
                   INTERMEDIATE_EVERY, refVars, procs, out, outVars,
                   framesRead>>


\* ------------------------------------------------------- the script, part 3
\* The mean structure: the sums divided by the frame count, the
\* orientations normalized after the division.
MeanStructure(pos, a1, a3, inter, frames, ref_id) ==
    [ i_means  |-> inter,
      g_mean   |-> Div(pos, frames),
      a1_mean  |-> normalize(Div(a1, frames)),
      a3_mean  |-> normalize(Div(a3, frames)),
      p_frames |-> frames,
      ini_id   |-> ref_id ]

Finalize ==
    /\ pc = "finalize"
    /\ mean_file' = <<MeanStructure(mean_pos_storage, mean_a1_storage,
                                    mean_a3_storage,
                                    intermediate_mean_structures,
                                    processed_frames, align_conf_id)>>
    /\ pc' = "write_json"
    /\ UNCHANGED <<cliVars, fmtVars, outfile, dev_file, indexes, num_confs,
                   INTERMEDIATE_EVERY, refVars, procs, out, sumVars, fs,
                   jsonfile, subproc, framesRead>>

\* open(name, "w") and write: the file holds this content and nothing else.
WriteFile(files, name, kind) ==
    {e \in files : e.name # name} \cup {[name |-> name, kind |-> kind]}

RemoveFile(files, name) == {e \in files : e.name # name}

KindOf(files, name) ==
    IF \E e \in files : e.name = name
    THEN (CHOOSE e \in files : e.name = name).kind
    ELSE "missing"

\* The json file is written when json was asked for or the deviations
\* need it; with the oxDNA output also on, its name is the stem + ".json".
WriteJson ==
    /\ pc = "write_json"
    /\ IF outjson \/ Given(dev_file)
       THEN LET name == IF outoxdna THEN SplitExt(outfile, "json")
                        ELSE outfile
            IN  /\ jsonfile' = name
                /\ fs' = WriteFile(fs, name, "json")
       ELSE UNCHANGED <<jsonfile, fs>>
    /\ pc' = "write_dat"
    /\ UNCHANGED <<cliVars, fmtVars, outfile, dev_file, indexes, num_confs,
                   INTERMEDIATE_EVERY, refVars, procs, out, sumVars,
                   mean_file, subproc, framesRead>>

\* The oxDNA file: make_dat(loads(mean_file), outname).
WriteDat ==
    /\ pc = "write_dat"
    /\ IF outoxdna
       THEN LET outname == IF outjson THEN SplitExt(outfile, "dat")
                           ELSE outfile
            IN  fs' = WriteFile(fs, outname, "dat")
       ELSE UNCHANGED fs
    /\ pc' = "deviations"
    /\ UNCHANGED <<cliVars, fmtVars, outfile, dev_file, indexes, num_confs,
                   INTERMEDIATE_EVERY, refVars, procs, out, sumVars,
                   mean_file, jsonfile, subproc, framesRead>>

\* -d: compute_deviations.py is started on the json file; the script
\* waits in subprocess.run.
LaunchDeviations ==
    /\ pc = "deviations"
    /\ IF Given(dev_file)
       THEN /\ subproc' = Append(subproc,
                                 [input   |-> jsonfile,
                                  holds   |-> KindOf(fs, jsonfile),
                                  files   |-> fs,
                                  cpus    |-> args.parallel,
                                  returned |-> FALSE])
            /\ pc' = "subprocess"
       ELSE /\ pc' = "done"
            /\ UNCHANGED subproc
    /\ UNCHANGED <<cliVars, fmtVars, outfile, dev_file, indexes, num_confs,
                   INTERMEDIATE_EVERY, refVars, procs, out, sumVars,
                   mean_file, fs, jsonfile, framesRead>>

\* subprocess.run returns (whatever the exit status); the json file is
\* removed when json was not asked for.
DeviationsReturn ==
    /\ pc = "subprocess"
    /\ subproc' = [subproc EXCEPT ![Len(subproc)].returned = TRUE]
    /\ fs' = IF ~outjson THEN RemoveFile(fs, jsonfile) ELSE fs
    /\ pc' = "done"
    /\ UNCHANGED <<cliVars, fmtVars, outfile, dev_file, indexes, num_confs,
                   INTERMEDIATE_EVERY, refVars, procs, out, sumVars,
                   mean_file, jsonfile, framesRead>>

\* ------------------------------------------------------------ specification
Worker(i) ==
    \/ ComputeMeanEnter(i)
    \/ ComputeMeanStep(i)
    \/ ComputeMeanRaise(i)
    \/ ComputeMeanReturn(i)

Next ==
    \/ ParseFormat
    \/ ChooseOutfile
    \/ ReadIndexes
    \/ CountConfs
    \/ pick_starting_configuration
    \/ CentreReference
    \/ SerialCall
    \/ SerialReturn
    \/ SerialRaise
    \/ FireMultiprocess
    \/ FireMultiprocessReturn
    \/ FireMultiprocessRaise
    \/ Reduce
    \/ Finalize
    \/ WriteJson
    \/ WriteDat
    \/ LaunchDeviations
    \/ DeviationsReturn
    \/ \E i \in DOMAIN procs : Worker(i)

Spec == Init /\ [][Next]_vars


\* ------------------------------------------------------------------ claims
\* A call of compute_mean run to its return, as one value.
RECURSIVE RunCall(_)
RunCall(c) == IF LoopTest(c) THEN RunCall(LoopBody(c)) ELSE c

\* What the serial run over the whole trajectory returns.
SerialResult == Result(RunCall(EnterCall(NewCall(<<>>, <<>>))))

Reduced == pc \in {"finalize", "write_json", "write_dat", "deviations",
                   "subprocess", "done"}

\* C1: for W <= F workers the parallel run has processed F frames in all
\* and its combined position, a1 and a3 sums are those of the serial run
\* over the same trajectory, whatever the order the workers finish in.
C1_ParallelEqualsSerial ==
    (Reduced /\ parallel /\ n_cpus <= nframes) =>
        /\ processed_frames = nframes
        /\ mean_pos_storage = SerialResult.pos
        /\ mean_a1_storage = SerialResult.a1
        /\ mean_a3_storage = SerialResult.a3

\* The ranges handed to the workers, as fire_multiprocess made them.
RangeStart(i) == procs[i].argstart[1]

RangeStop(i) == procs[i].argstop[1]

RangeSize(i) == RangeStop(i) - RangeStart(i)

Fired == parallel /\ procs # <<>>

\* C2: the chunk ranges are W contiguous ranges, pairwise disjoint, that
\* cover exactly [0, F); their sizes differ by at most one and the
\* remainder goes to the earliest ranges.
C2_ChunksPartition ==
    Fired =>
        /\ Len(procs) = n_cpus
        /\ RangeStart(1) = 0
        /\ RangeStop(Len(procs)) = nframes
        /\ \A i \in DOMAIN procs : RangeStart(i) <= RangeStop(i)
        /\ \A i \in 1 .. Len(procs) - 1 : RangeStop(i) = RangeStart(i + 1)
        /\ \A i, j \in DOMAIN procs :
              i < j => RangeSize(j) <= RangeSize(i) /\ RangeSize(i) <= RangeSize(j) + 1
        /\ \A f \in 0 .. nframes - 1 :
              Cardinality({i \in DOMAIN procs :
                             RangeStart(i) <= f /\ f < RangeStop(i)}) = 1

\* C2 witness: a split with a remainder, over at least two workers.
C2_Witness ==
    /\ Fired
    /\ n_cpus >= 2
    /\ nframes % n_cpus # 0
    /\ RangeSize(1) = RangeSize(Len(procs)) + 1

SerialDone == ~parallel /\ Reduced

C4_WorkerFailureFailsRun ==
    (parallel /\ PoolFailed) =>
        /\ pc \in {"accumulate", "crashed"}
        /\ out = <<>>
        /\ processed_frames = 0
        /\ mean_pos_storage = 0 /\ mean_a1_storage = 0 /\ mean_a3_storage = 0
        /\ mean_file = Unset
        /\ fs = {}
        /\ subproc = <<>>

\* C4 witness: the run has failed on one worker's exception while another
\* worker had returned a partial sum.
C4_Witness ==
    /\ parallel
    /\ pc = "crashed"
    /\ PoolFailed
    /\ \E i \in DOMAIN procs :
          procs[i].status = "returned" /\ procs[i].confid > 0

BeforeReference == {"format", "output", "index", "count", "pick"}

\* C5: an explicit reference frame id outside [0, frame_count) makes the
\* run exit with an error before any accumulation; no file is written.
C5_OutOfRangeReferenceFails ==
    (Given(args.align)
        /\ (args.align[1] < 0 \/ args.align[1] >= nframes)) =>
        /\ pc \in BeforeReference \cup {"exit1"}
        /\ procs = <<>>
        /\ fs = {}

\* C6: with an index file holding a token that is no integer, the run is
\* aborted before any frame is read and before the reference selection,
\* the alignment or the accumulation begins.
C6_BadIndexAborts ==
    (Given(args.index_file) /\ args.index_file[1] = "words") =>
        /\ framesRead = 0
        /\ align_conf = "unset"
        /\ procs = <<>>

WantsJson(tok) == tok \in {"json", "both"}

WantsOxdna(tok) == tok \in {"oxDNA", "oxdna", "both"}

HasKind(kind) == \E e \in fs : e.kind = kind

\* C8: a -f token other than json, oxDNA, oxdna and both makes the run
\* exit with an error before any frame is read or any file written; a
\* recognised token selects exactly its outputs: the flags, the oxDNA file
\* once the outputs are written, and the json file the run leaves behind.
C8_FormatSelection ==
    Given(args.format) =>
        LET tok == args.format[1]
        IN  IF ~WantsJson(tok) /\ ~WantsOxdna(tok)
            THEN /\ pc \in {"format", "exit1"}
                 /\ framesRead = 0
                 /\ fs = {}
            ELSE /\ pc # "format" =>
                       outjson = WantsJson(tok) /\ outoxdna = WantsOxdna(tok)
                 /\ pc = "deviations" => (HasKind("dat") <=> WantsOxdna(tok))
                 /\ pc = "deviations" => (WantsJson(tok) => HasKind("json"))
                 /\ pc = "done" => (HasKind("json") <=> WantsJson(tok))

\* C8 witness: a finished run with -f both that left both files.
C8_Witness ==
    /\ pc = "done"
    /\ args.format = <<"both">>
    /\ HasKind("json")
    /\ HasKind("dat")

\* C9: with no -f the output defaults to json: a json file is written
\* and no oxDNA file.
C9_DefaultIsJson ==
    (~Given(args.format) /\ pc # "format") =>
        /\ outjson /\ ~outoxdna
        /\ pc = "done" => HasKind("json") /\ ~HasKind("dat")

\* C10: a call of compute_mean bounded to [start, stop) folds only frames
\* with ids in [start, stop); its counter is at every step the number of
\* frames folded, and so never more than stop - start.
C10_FoldsOnlyRange ==
    \A i \in DOMAIN procs :
        procs[i].status # "called" =>
            /\ procs[i].confid = Len(procs[i].folded)
            /\ \A k \in DOMAIN procs[i].folded :
                  procs[i].start <= procs[i].folded[k]
                      /\ procs[i].folded[k] < procs[i].stop
            /\ procs[i].confid <= procs[i].stop - procs[i].start

\* The calls of compute_mean that exist before and after a step.
Calls == DOMAIN procs \cap DOMAIN procs'

\* What one step does to the intermediate means of call i: nothing, or
\* one snapshot appended in the pass that folded a frame.
SnapshotStep(i) ==
    LET c == procs[i]
        d == procs'[i]
    IN  \/ d.inter = c.inter
        \/ /\ ~parallel
            /\ c.mysystem # <<>>
            /\ d.confid = c.confid + 1
            /\ INTERMEDIATE_EVERY > 0
            /\ d.confid % INTERMEDIATE_EVERY = 0
            /\ d.inter = Append(c.inter, Div(d.pos, d.confid))
            /\ d.pos = c.pos + FramePos(c.mysystem[1])
            /\ d.a1 = c.a1 + FrameA1(c.mysystem[1])
            /\ d.a3 = c.a3 + FrameA3(c.mysystem[1])

\* C11: an intermediate snapshot is appended only in a serial run (with
\* -p, for any worker count, no call and no result ever holds one), and
\* only in the pass in which the counter has reached a positive multiple
\* of INTERMEDIATE_EVERY; the snapshot is the position sum divided by the
\* counter, and the sums and the counter are those of the fold alone.
C11_SnapshotAppend ==
    [][ /\ \A i \in Calls : SnapshotStep(i)
        /\ parallel =>
              /\ \A i \in DOMAIN procs' : procs'[i].inter = <<>>
              /\ intermediate_mean_structures' = <<>> ]_vars

\* C11 witness: a serial call that has appended its third snapshot, with
\* a period of 2, right after its sixth frame.
C11_Witness ==
    /\ ~parallel
    /\ INTERMEDIATE_EVERY = 2
    /\ procs # <<>>
    /\ procs[1].confid = 6
    /\ Len(procs[1].inter) = 3
    /\ procs[1].inter[3] = Div(procs[1].pos, 6)

InitFinalizer ==
    /\ nframes = MaxCount
    /\ args = [format |-> <<>>, output |-> <<>>, deviations |-> <<>>,
               index_file |-> <<>>, align |-> <<>>, parallel |-> <<>>]
    /\ pc = "finalize"
    /\ outjson = FALSE
    /\ outoxdna = TRUE
    /\ outfile = Name("mean", "dat")
    /\ dev_file = Unset
    /\ indexes = "all"
    /\ num_confs = nframes
    /\ INTERMEDIATE_EVERY = nframes \div 10
    /\ align_conf = "centred"
    /\ align_conf_id = <<0>>
    /\ procs = <<>>
    /\ out = <<>>
    /\ processed_frames \in 0 .. MaxCount
    /\ mean_pos_storage \in {processed_frames * k : k \in 0 .. 2}
    /\ mean_a1_storage \in {s \in -processed_frames .. processed_frames :
                              (processed_frames - s) % 2 = 0}
    /\ mean_a3_storage \in {s \in -processed_frames .. processed_frames :
                              (processed_frames - s) % 2 = 0}
    /\ intermediate_mean_structures = <<>>
    /\ mean_file = Unset
    /\ fs = {}
    /\ jsonfile = NoName
    /\ subproc = <<>>
    /\ framesRead = 0

NextFinalizer == Finalize

SpecFinalizer == InitFinalizer /\ [][NextFinalizer]_vars

====
